---- MODULE Spec2Model ----
(***************************************************************************)
(* Adaptive heuristics of the Shenandoah collector                         *)
(* (gc/shenandoah/heuristics/shenandoahAdaptiveHeuristics.cpp).            *)
(*                                                                         *)
(* Number representation.  The C++ doubles are carried as fixed-point      *)
(* integers:                                                               *)
(*   - confidence values (standard deviations) in units of 1/SD_SCALE;     *)
(*   - the clock and the cycle times in ticks;                             *)
(*   - allocation rates in whole bytes per tick.                           *)
(* A comparison of two doubles is modelled exactly, by cross               *)
(* multiplication; a quotient that is stored is truncated towards zero.    *)
(* size_t quantities are naturals and their divisions truncate as in C.    *)
(***************************************************************************)
EXTENDS Integers, Sequences, FiniteSets, TLC

\* ------------------------------------------------------------------------
\* Fixed-point resolution of the confidence values
\* ------------------------------------------------------------------------
SD_SCALE == 1000

\* ------------------------------------------------------------------------
\* Constants of the heuristic (lines 43-59), in units of 1/SD_SCALE
\* ------------------------------------------------------------------------
FULL_PENALTY_SD == 200
DEGENERATE_PENALTY_SD == 100
LOWEST_EXPECTED_AVAILABLE_AT_END == 0 - 500
HIGHEST_EXPECTED_AVAILABLE_AT_END == 500
MINIMUM_CONFIDENCE == 319
MAXIMUM_CONFIDENCE == 3291
\* the attenuation of the z-score in record_success_concurrent (line 307)
Z_ATTENUATION == 100

\* ------------------------------------------------------------------------
\* Tunables (flags read by the code)
\* ------------------------------------------------------------------------
ShenandoahMinFreeThreshold == 10
ShenandoahInitFreeThreshold == 70
ShenandoahAllocSpikeFactor == 5
ShenandoahLearningSteps == 2
\* 1 / ShenandoahAdaptiveSampleFrequencyHz, in ticks
interval_sec == 1
\* ShenandoahHeapRegion::region_size_bytes()
region_size_bytes == 40
ShenandoahGarbageThreshold == 25
ShenandoahIgnoreGarbageThreshold == 10
ShenandoahEvacReserve == 6
\* the double flags ShenandoahEvacWaste (1.2) and ShenandoahOldEvacWaste (1.4),
\* in units of 1/WASTE_SCALE
WASTE_SCALE == 10
\* size_t holds the values 0 .. SIZE_T_RANGE - 1 and its arithmetic wraps
SIZE_T_RANGE == 2048
ShenandoahEvacWaste == 12
ShenandoahOldEvacWaste == 14

\* ------------------------------------------------------------------------
\* Bounds of the model
\* ------------------------------------------------------------------------
\* the clock stops advancing at MaxTime ticks
MaxTime == 4
\* at most MaxCycles record_success_* calls are followed
MaxCycles == 3
\* the record_success_* calls followed where the trigger decision is explored
MaxTriggerCycles == 2
\* window of the allocation-rate moving averages
RateWindow == 2
\* window of the available-memory moving average
AvailableWindow == 2
\* the longest region array handed to the collection-set chooser
MaxRegions == 3

\* ------------------------------------------------------------------------
\* Arithmetic helpers
\* ------------------------------------------------------------------------
MIN2(a, b) == IF a < b THEN a ELSE b
MAX2(a, b) == IF a > b THEN a ELSE b

\* C++ division of doubles kept at the fixed-point resolution: the quotient
\* truncated towards zero (b > 0).
TruncDiv(a, b) == IF a >= 0 THEN a \div b ELSE 0 - ((0 - a) \div b)

RECURSIVE SqrtSearch(_, _, _)
SqrtSearch(n, lo, hi) ==
  IF lo >= hi THEN lo
  ELSE LET mid == (lo + hi + 1) \div 2
       IN IF mid * mid <= n THEN SqrtSearch(n, mid, hi)
                            ELSE SqrtSearch(n, lo, mid - 1)

\* floor of the square root
ISqrt(n) == IF n <= 0 THEN 0 ELSE SqrtSearch(n, 0, n)

RECURSIVE SeqSum(_)
SeqSum(s) == IF s = <<>> THEN 0 ELSE Head(s) + SeqSum(Tail(s))

RECURSIVE SeqSumSq(_)
SeqSumSq(s) == IF s = <<>> THEN 0 ELSE Head(s) * Head(s) + SeqSumSq(Tail(s))

\* ------------------------------------------------------------------------
\* Decayed moving average (TruncatedSeq): the window of samples
\* ------------------------------------------------------------------------
\* add(x): append, dropping the oldest sample of a full window
DMA_add(s, x, window) ==
  IF Len(s) < window THEN Append(s, x) ELSE Append(Tail(s), x)

\* avg(): mean of the window
DMA_avg(s) == IF s = <<>> THEN 0 ELSE SeqSum(s) \div Len(s)

\* sd(): population standard deviation of the window, 0 with <= 1 sample
DMA_sd(s) ==
  IF Len(s) <= 1 THEN 0
  ELSE ISqrt(Len(s) * SeqSumSq(s) - SeqSum(s) * SeqSum(s)) \div Len(s)

\* davg(): decayed mean, newer samples weighted more (decay factor 1/2)
RECURSIVE DMA_davg(_)
DMA_davg(s) ==
  IF s = <<>> THEN 0
  ELSE IF Len(s) = 1 THEN s[1]
  ELSE (s[Len(s)] + DMA_davg(SubSeq(s, 1, Len(s) - 1))) \div 2

\* decayed variance
RECURSIVE DMA_dvariance(_)
DMA_dvariance(s) ==
  IF Len(s) <= 1 THEN 0
  ELSE LET diff == s[Len(s)] - DMA_davg(s)
       IN (diff * diff + DMA_dvariance(SubSeq(s, 1, Len(s) - 1))) \div 2

\* dsd(): decayed standard deviation, 0 with <= 1 sample
DMA_dsd(s) == ISqrt(DMA_dvariance(s))

\* ------------------------------------------------------------------------
\* ShenandoahAllocationRate
\*   est = [last_sample_time, last_sample_value, rate, rate_avg]
\* ------------------------------------------------------------------------
instantaneous_rate(est, time, allocated) ==
  LET last_value == est.last_sample_value
      last_time == est.last_sample_time
      allocation_delta == IF allocated > last_value THEN allocated - last_value ELSE 0
      time_delta_sec == time - last_time
  IN IF time_delta_sec > 0
       THEN allocation_delta \div time_delta_sec
       ELSE 0

\* sample without the interval between two samples
sample_without_interval(est, time, allocated) ==
  LET sampled == allocated >= est.last_sample_value
      r == IF sampled THEN instantaneous_rate(est, time, allocated) ELSE 0
      rate1 == IF sampled THEN DMA_add(est.rate, r, RateWindow) ELSE est.rate
      avg1 == IF sampled
                THEN DMA_add(est.rate_avg, DMA_avg(rate1), RateWindow)
                ELSE est.rate_avg
  IN [rate |-> r,
      est |-> [last_sample_time |-> time,
               last_sample_value |-> allocated,
               rate |-> rate1,
               rate_avg |-> avg1]]

\* sample without the comparison of allocated with the last value
sample_without_regression_check(est, time, allocated) ==
  IF time - est.last_sample_time > interval_sec
    THEN LET r == instantaneous_rate(est, time, allocated)
             rate1 == DMA_add(est.rate, r, RateWindow)
             avg1 == DMA_add(est.rate_avg, DMA_avg(rate1), RateWindow)
         IN [rate |-> r,
             est |-> [last_sample_time |-> time,
                      last_sample_value |-> allocated,
                      rate |-> rate1,
                      rate_avg |-> avg1]]
    ELSE [rate |-> 0, est |-> est]

\* sample(allocated) at clock value time: the rate returned and the estimator
\* afterwards
sample(est, time, allocated) ==
  IF time - est.last_sample_time > interval_sec
    THEN LET sampled == allocated >= est.last_sample_value
             r == IF sampled THEN instantaneous_rate(est, time, allocated) ELSE 0
             rate1 == IF sampled THEN DMA_add(est.rate, r, RateWindow) ELSE est.rate
             avg1 == IF sampled
                       THEN DMA_add(est.rate_avg, DMA_avg(rate1), RateWindow)
                       ELSE est.rate_avg
         IN [rate |-> r,
             est |-> [last_sample_time |-> time,
                      last_sample_value |-> allocated,
                      rate |-> rate1,
                      rate_avg |-> avg1]]
    ELSE [rate |-> 0, est |-> est]

\* upper_bound(sds), in units of 1/SD_SCALE bytes per tick
upper_bound(est, sds) ==
  DMA_davg(est.rate) * SD_SCALE + sds * DMA_dsd(est.rate_avg)

\* allocation_counter_reset that moves the sample time and keeps the value
allocation_counter_reset_keeps_value(est, time) ==
  [est EXCEPT !.last_sample_time = time]

allocation_counter_reset(est, time) ==
  [est EXCEPT !.last_sample_time = time, !.last_sample_value = 0]

\* is_spiking with the threshold ignored: any rate above the average
is_spiking_above_average(est, rate, threshold) ==
  rate > 0 /\ DMA_sd(est.rate) > 0 /\ rate > DMA_avg(est.rate)

\* is_spiking(rate, threshold): (rate - avg) / sd > threshold
is_spiking(est, rate, threshold) ==
  IF rate <= 0 THEN FALSE
  ELSE LET sd == DMA_sd(est.rate)
       IN IF sd > 0
            THEN (rate - DMA_avg(est.rate)) * SD_SCALE > threshold * sd
            ELSE FALSE

\* ------------------------------------------------------------------------
\* Trigger parameters
\* ------------------------------------------------------------------------
\* saturate with the lower limit forgotten
saturate_no_floor(value, min, max) == MIN2(value, max)

saturate(value, min, max) == MAX2(MIN2(value, max), min)

adjust_margin_of_error_subtracted(margin, amount) ==
  saturate(margin - amount, MINIMUM_CONFIDENCE, MAXIMUM_CONFIDENCE)

adjust_margin_of_error(margin, amount) ==
  saturate(margin + amount, MINIMUM_CONFIDENCE, MAXIMUM_CONFIDENCE)

\* adjust_spike_threshold adding the amount, as adjust_margin_of_error does
adjust_spike_threshold_added(spike, amount) ==
  saturate(spike + amount, MINIMUM_CONFIDENCE, MAXIMUM_CONFIDENCE)

adjust_spike_threshold(spike, amount) ==
  saturate(spike - amount, MINIMUM_CONFIDENCE, MAXIMUM_CONFIDENCE)

\* adjust_last_trigger_parameters with the break after case RATE missing
adjust_last_trigger_parameters_fallthrough(trigger, margin, spike, amount) ==
  CASE trigger = "RATE" ->
         [margin |-> adjust_margin_of_error(margin, amount),
          spike |-> adjust_spike_threshold(spike, amount)]
    [] trigger = "SPIKE" ->
         [margin |-> margin, spike |-> adjust_spike_threshold(spike, amount)]
    [] trigger = "OTHER" ->
         [margin |-> margin, spike |-> spike]

\* the two parameters after adjust_last_trigger_parameters(amount)
adjust_last_trigger_parameters(trigger, margin, spike, amount) ==
  CASE trigger = "RATE" ->
         [margin |-> adjust_margin_of_error(margin, amount), spike |-> spike]
    [] trigger = "SPIKE" ->
         [margin |-> margin, spike |-> adjust_spike_threshold(spike, amount)]
    [] trigger = "OTHER" ->
         [margin |-> margin, spike |-> spike]

\* ------------------------------------------------------------------------
\* record_success_concurrent: z-score of the available memory
\* ------------------------------------------------------------------------
\* z_score as a fraction [num, den], den > 0: 0 unless available_sd > 0
z_score(hist, avail) ==
  LET available_sd == DMA_sd(hist)
  IN IF available_sd > 0
       THEN [num |-> avail - DMA_avg(hist), den |-> available_sd]
       ELSE [num |-> 0, den |-> 1]

\* z_score < LOWEST_EXPECTED_AVAILABLE_AT_END || z_score > HIGHEST_...
outside_expected(z) ==
  \/ z.num * SD_SCALE < LOWEST_EXPECTED_AVAILABLE_AT_END * z.den
  \/ z.num * SD_SCALE > HIGHEST_EXPECTED_AVAILABLE_AT_END * z.den

\* z_score / 100: the sign not flipped
z_adjustment_unflipped(z) == TruncDiv(z.num * SD_SCALE, Z_ATTENUATION * z.den)

\* z_score / -100, in units of 1/SD_SCALE
z_adjustment(z) == TruncDiv((0 - z.num) * SD_SCALE, Z_ATTENUATION * z.den)

\* ------------------------------------------------------------------------
\* should_start_gc
\* ------------------------------------------------------------------------
\* ShenandoahHeuristics::min_free_threshold()
min_free_threshold(capacity) == (capacity * ShenandoahMinFreeThreshold) \div 100

\* available, lowered to what the free set can hand out
usable_available(soft_available, usable) ==
  IF usable < soft_available THEN usable ELSE soft_available

\* the threshold with the multiplication done first
init_threshold_multiply_first(capacity) ==
  (capacity * ShenandoahInitFreeThreshold) \div 100

init_threshold(capacity) == (capacity \div 100) * ShenandoahInitFreeThreshold

\* the spike headroom with the multiplication done first
spike_headroom_multiply_first(capacity) ==
  (capacity * ShenandoahAllocSpikeFactor) \div 100

spike_headroom(capacity) == (capacity \div 100) * ShenandoahAllocSpikeFactor

penalties(capacity, gc_time_penalties) == (capacity \div 100) * gc_time_penalties

\* allocation_headroom with plain subtractions
allocation_headroom_unsaturated(available, capacity, gc_time_penalties) ==
  available - penalties(capacity, gc_time_penalties) - spike_headroom(capacity)

\* allocation_headroom after the two saturating subtractions
allocation_headroom(available, capacity, gc_time_penalties) ==
  LET h1 == available - MIN2(available, penalties(capacity, gc_time_penalties))
  IN h1 - MIN2(h1, spike_headroom(capacity))

\* davg() + margin_of_error_sd * dsd() of the cycle-time history, in units of
\* 1/SD_SCALE ticks
avg_cycle_time(davg, dsd, margin) == davg * SD_SCALE + margin * dsd

\* the double comparison  cycle_time > headroom / rate, for cycle_time in
\* 1/SD_SCALE ticks and rate in 1/unit bytes per tick.  A zero rate gives
\* +infinity or NaN, and the comparison is false.
depletes_before_cycle_end(cycle_time, headroom, rate, unit) ==
  IF rate > 0 THEN cycle_time * rate > headroom * SD_SCALE * unit
  ELSE IF rate = 0 THEN FALSE
  ELSE cycle_time * rate < headroom * SD_SCALE * unit

rate_trigger(cycle_time, headroom, avg_alloc_rate) ==
  depletes_before_cycle_end(cycle_time, headroom, avg_alloc_rate, SD_SCALE)

spike_trigger(spiking, cycle_time, headroom, rate) ==
  spiking /\ depletes_before_cycle_end(cycle_time, headroom, rate, 1)

\* the percentage compared with the bytes available
below_min_threshold_unscaled(available, capacity) ==
  available < ShenandoahMinFreeThreshold

\* available < min_threshold
below_min_threshold(available, capacity) ==
  available < min_free_threshold(capacity)

\* _gc_times_learned < max_learn and available < init_threshold
below_init_threshold(learned, available, capacity) ==
  learned < ShenandoahLearningSteps /\ available < init_threshold(capacity)

\* The depletion triggers of a generation that is not old, in the order of
\* the code: the one that returns true, or "none".
depletion_trigger(learned, margin, spike, est, rate, in) ==
  LET headroom == allocation_headroom(in.available, in.capacity, in.gc_time_penalties)
      cycle_time == avg_cycle_time(in.cycle_davg, in.cycle_dsd, margin)
      avg_alloc_rate == upper_bound(est, margin)
  IN IF below_min_threshold(in.available, in.capacity) THEN "min"
     ELSE IF below_init_threshold(learned, in.available, in.capacity) THEN "learning"
     ELSE IF rate_trigger(cycle_time, headroom, avg_alloc_rate) THEN "rate"
     ELSE IF spike_trigger(is_spiking(est, rate, spike), cycle_time, headroom, rate)
       THEN "spike"
     ELSE "none"

\* the generational branch without the mixed-evacuation candidates
expedite_without_mixed(generational, promo_potential, promo_in_place_potential, mixed_candidates) ==
  IF ~generational THEN "none"
  ELSE IF promo_potential > 0 THEN "promotion"
  ELSE IF promo_in_place_potential > 0 THEN "promotion_in_place"
  ELSE "none"

\* The generational branch: the trigger that returns true, or "none".
expedite(generational, promo_potential, promo_in_place_potential, mixed_candidates) ==
  IF ~generational THEN "none"
  ELSE IF promo_potential > 0 THEN "promotion"
  ELSE IF promo_in_place_potential > 0 THEN "promotion_in_place"
  ELSE IF mixed_candidates > 0 THEN "mixed"
  ELSE "none"

\* the depletion triggers applied to every generation
applies_depletion_triggers_always(kind) == TRUE

\* !_generation->is_old()
applies_depletion_triggers(kind) == kind # "old"

\* should_start_gc recording RATE for every depletion trigger that fires
should_start_gc_tags_every_trigger(kind, generational, learned, margin, spike, est, rate, in) ==
  LET depletion == IF applies_depletion_triggers(kind)
                     THEN depletion_trigger(learned, margin, spike, est, rate, in)
                     ELSE "none"
      expedited == IF ~applies_depletion_triggers(kind) \/ depletion # "none"
                     THEN "none"
                   ELSE expedite(generational, in.promo_potential,
                                 in.promo_in_place_potential, in.mixed_candidates)
  IN IF depletion = "spike"
       THEN [result |-> TRUE, trigger |-> "SPIKE", why |-> "spike"]
     ELSE IF depletion # "none"
       THEN [result |-> TRUE, trigger |-> "RATE", why |-> depletion]
     ELSE IF expedited # "none"
       THEN [result |-> TRUE, trigger |-> "OTHER", why |-> expedited]
     ELSE [result |-> in.base, trigger |-> "OTHER", why |-> "base"]

\* The decision of should_start_gc after the allocation rate was sampled and
\* _last_trigger was set to OTHER.
\* kind, generational: the generation and the heap mode; learned, margin,
\* spike: the heuristic's fields; est, rate: the estimator after sample() and
\* the rate it returned; in: the collaborators' values.
\* The result, the trigger recorded and the branch that returned.
should_start_gc(kind, generational, learned, margin, spike, est, rate, in) ==
  LET depletion == IF applies_depletion_triggers(kind)
                     THEN depletion_trigger(learned, margin, spike, est, rate, in)
                     ELSE "none"
      expedited == IF ~applies_depletion_triggers(kind) \/ depletion # "none"
                     THEN "none"
                   ELSE expedite(generational, in.promo_potential,
                                 in.promo_in_place_potential, in.mixed_candidates)
  IN IF depletion = "rate"
       THEN [result |-> TRUE, trigger |-> "RATE", why |-> "rate"]
     ELSE IF depletion = "spike"
       THEN [result |-> TRUE, trigger |-> "SPIKE", why |-> "spike"]
     ELSE IF depletion # "none"
       THEN [result |-> TRUE, trigger |-> "OTHER", why |-> depletion]
     ELSE IF expedited # "none"
       THEN [result |-> TRUE, trigger |-> "OTHER", why |-> expedited]
     ELSE [result |-> in.base, trigger |-> "OTHER", why |-> "base"]

\* the history left as it was
add_available_skipped(history, avail) == history

\* _available.add(double(available)) in record_success_concurrent
add_available(history, avail) == DMA_add(history, avail, AvailableWindow)

\* ------------------------------------------------------------------------
\* choose_collection_set_from_regiondata
\*   a region is [index, live, garbage, old, aged, preselected]:
\*     live         r->get_live_data_bytes()
\*     garbage      r->garbage()
\*     old          r->is_old()
\*     aged         r->age() >= InitialTenuringThreshold
\*     preselected  cset->is_preselected(r->index())
\* ------------------------------------------------------------------------
garbage_threshold == (region_size_bytes * ShenandoahGarbageThreshold) \div 100

ignore_threshold == (region_size_bytes * ShenandoahIgnoreGarbageThreshold) \div 100

\* QuickSort::sort(data, size, compare_by_garbage): most garbage first, regions
\* of equal garbage in the order of the array
RECURSIVE insert_by_garbage(_, _)
insert_by_garbage(r, sorted) ==
  IF sorted = <<>> THEN <<r>>
  ELSE IF Head(sorted).garbage > r.garbage
    THEN <<Head(sorted)>> \o insert_by_garbage(r, Tail(sorted))
  ELSE <<r>> \o sorted

\* the array left in the order the caller passed
sort_by_garbage_skipped(data) == data

RECURSIVE sort_by_garbage(_)
sort_by_garbage(data) ==
  IF data = <<>> THEN <<>>
  ELSE insert_by_garbage(Head(data), sort_by_garbage(Tail(data)))

\* (size_t) ((1.0 * capacity / 100 * ShenandoahEvacReserve) / ShenandoahEvacWaste)
non_generational_max_cset(capacity) ==
  (capacity * ShenandoahEvacReserve * WASTE_SCALE) \div (100 * ShenandoahEvacWaste)

\* (size_t) (heap->get_young_evac_reserve() / ShenandoahEvacWaste)
young_max_cset(young_evac_reserve) ==
  (young_evac_reserve * WASTE_SCALE) \div ShenandoahEvacWaste

\* (size_t) (heap->get_old_evac_reserve() / ShenandoahOldEvacWaste)
old_max_cset(old_evac_reserve) ==
  (old_evac_reserve * WASTE_SCALE) \div ShenandoahOldEvacWaste

free_target(capacity, max_cset) ==
  (capacity * ShenandoahMinFreeThreshold) \div 100 + max_cset

min_garbage(target, actual_free) ==
  IF target > actual_free THEN target - actual_free ELSE 0

\* the evacuation cap ignored
within_evacuation_cap_always(new_cset, max_cset) == TRUE

\* new_cset <= max_cset
within_evacuation_cap(new_cset, max_cset) == new_cset <= max_cset

\* the garbage threshold alone
adds_region_over_threshold(new_garbage, min, garbage) == garbage > garbage_threshold

\* non-generational: (new_garbage < min_garbage) || (r->garbage() > garbage_threshold)
adds_region(new_garbage, min, garbage) ==
  new_garbage < min \/ garbage > garbage_threshold

\* the young test without the ignore threshold
adds_young_region_without_ignore_threshold(new_garbage, min, garbage) ==
  new_garbage < min \/ garbage > garbage_threshold

\* generational: add_regardless || (region_garbage > garbage_threshold)
adds_young_region(new_garbage, min, garbage) ==
  \/ (garbage > ignore_threshold /\ new_garbage < min)
  \/ garbage > garbage_threshold

\* the loop of the non-generational branch from position i of the sorted
\* array; stopped is the position of the break, 0 without one
RECURSIVE non_generational_walk(_, _, _, _)
non_generational_walk(data, i, st, p) ==
  IF i > Len(data) THEN st
  ELSE LET r == data[i]
           new_cset == st.cur_cset + r.live
           new_garbage == st.cur_garbage + r.garbage
       IN IF ~within_evacuation_cap(new_cset, p.max_cset)
            THEN [st EXCEPT !.stopped = i]
          ELSE IF adds_region(new_garbage, p.min_garbage, r.garbage)
            THEN non_generational_walk(data, i + 1,
                   [st EXCEPT !.added = Append(@, r.index),
                              !.cur_cset = new_cset,
                              !.cur_garbage = new_garbage], p)
          ELSE non_generational_walk(data, i + 1, st, p)

\* the first pass with the preselected regions' garbage left out of
\* cur_young_garbage
RECURSIVE preselected_pass_uncounted(_, _, _)
preselected_pass_uncounted(data, i, st) ==
  IF i > Len(data) THEN st
  ELSE IF data[i].preselected
    THEN preselected_pass_uncounted(data, i + 1,
           [st EXCEPT !.added = Append(@, data[i].index)])
  ELSE preselected_pass_uncounted(data, i + 1, st)

\* the first pass of the generational branch: every preselected region
RECURSIVE preselected_pass(_, _, _)
preselected_pass(data, i, st) ==
  IF i > Len(data) THEN st
  ELSE IF data[i].preselected
    THEN preselected_pass(data, i + 1,
           [st EXCEPT !.added = Append(@, data[i].index),
                      !.cur_garbage = @ + data[i].garbage])
  ELSE preselected_pass(data, i + 1, st)

\* the loop of a young or mixed collection adding the preselected regions
\* once more instead of skipping them
RECURSIVE young_walk_adds_preselected(_, _, _, _)
young_walk_adds_preselected(data, i, st, p) ==
  IF i > Len(data) THEN st
  ELSE LET r == data[i]
           new_cset == st.cur_cset + r.live
           new_garbage == st.cur_garbage + r.garbage
       IN IF r.preselected
            THEN young_walk_adds_preselected(data, i + 1,
                   [st EXCEPT !.added = Append(@, r.index)], p)
          ELSE IF ~r.aged
                  /\ within_evacuation_cap(new_cset, p.max_cset)
                  /\ adds_young_region(new_garbage, p.min_garbage, r.garbage)
            THEN young_walk_adds_preselected(data, i + 1,
                   [st EXCEPT !.added = Append(@, r.index),
                              !.cur_cset = new_cset,
                              !.cur_garbage = new_garbage], p)
          ELSE young_walk_adds_preselected(data, i + 1, st, p)

\* the loop of a young or mixed collection
RECURSIVE young_walk(_, _, _, _)
young_walk(data, i, st, p) ==
  IF i > Len(data) THEN st
  ELSE LET r == data[i]
           new_cset == st.cur_cset + r.live
           new_garbage == st.cur_garbage + r.garbage
       IN IF r.preselected THEN young_walk(data, i + 1, st, p)
          ELSE IF ~r.aged
                  /\ within_evacuation_cap(new_cset, p.max_cset)
                  /\ adds_young_region(new_garbage, p.min_garbage, r.garbage)
            THEN young_walk(data, i + 1,
                   [st EXCEPT !.added = Append(@, r.index),
                              !.cur_cset = new_cset,
                              !.cur_garbage = new_garbage], p)
          ELSE young_walk(data, i + 1, st, p)

\* the loop of a global collection with the old regions tested against the
\* live bytes of all the regions added
RECURSIVE global_walk_shared_budget(_, _, _, _)
global_walk_shared_budget(data, i, st, p) ==
  IF i > Len(data) THEN st
  ELSE LET r == data[i]
           new_old_cset == st.old_cur_cset + r.live
           new_cset == st.cur_cset + r.live
           new_garbage == st.cur_garbage + r.garbage
       IN IF r.preselected THEN global_walk_shared_budget(data, i + 1, st, p)
          ELSE IF r.old
            THEN IF within_evacuation_cap(new_old_cset + st.cur_cset, p.max_old_cset)
                    /\ r.garbage > garbage_threshold
                   THEN global_walk_shared_budget(data, i + 1,
                          [st EXCEPT !.added = Append(@, r.index),
                                     !.old_cur_cset = new_old_cset], p)
                 ELSE global_walk_shared_budget(data, i + 1, st, p)
          ELSE IF ~r.aged
                  /\ within_evacuation_cap(new_cset, p.max_cset)
                  /\ adds_young_region(new_garbage, p.min_garbage, r.garbage)
            THEN global_walk_shared_budget(data, i + 1,
                   [st EXCEPT !.added = Append(@, r.index),
                              !.cur_cset = new_cset,
                              !.cur_garbage = new_garbage], p)
          ELSE global_walk_shared_budget(data, i + 1, st, p)

\* the loop of a global collection
RECURSIVE global_walk(_, _, _, _)
global_walk(data, i, st, p) ==
  IF i > Len(data) THEN st
  ELSE LET r == data[i]
           new_old_cset == st.old_cur_cset + r.live
           new_cset == st.cur_cset + r.live
           new_garbage == st.cur_garbage + r.garbage
       IN IF r.preselected THEN global_walk(data, i + 1, st, p)
          ELSE IF r.old
            THEN IF within_evacuation_cap(new_old_cset, p.max_old_cset)
                    /\ r.garbage > garbage_threshold
                   THEN global_walk(data, i + 1,
                          [st EXCEPT !.added = Append(@, r.index),
                                     !.old_cur_cset = new_old_cset], p)
                 ELSE global_walk(data, i + 1, st, p)
          ELSE IF ~r.aged
                  /\ within_evacuation_cap(new_cset, p.max_cset)
                  /\ adds_young_region(new_garbage, p.min_garbage, r.garbage)
            THEN global_walk(data, i + 1,
                   [st EXCEPT !.added = Append(@, r.index),
                              !.cur_cset = new_cset,
                              !.cur_garbage = new_garbage], p)
          ELSE global_walk(data, i + 1, st, p)

\* choose_collection_set_from_regiondata(cset, data, size, actual_free) for
\* the generation kind and the heap mode, reading in:
\*   capacity            the young generation's (generational) or the heap's
\*                       max_capacity()
\*   young_evac_reserve  heap->get_young_evac_reserve()
\*   old_evac_reserve    heap->get_old_evac_reserve()
\* The result: the sorted array, the regions handed to cset->add_region in the
\* order of the calls, cur_young_garbage after the first pass, the budgets and
\* the sums at the end.
choose_collection_set_from_regiondata(kind, generational, data, actual_free, in) ==
  LET sorted == sort_by_garbage(data)
      start == [added |-> <<>>, cur_cset |-> 0, old_cur_cset |-> 0,
                cur_garbage |-> 0, stopped |-> 0]
      max_cset == IF generational THEN young_max_cset(in.young_evac_reserve)
                  ELSE non_generational_max_cset(in.capacity)
      p == [max_cset |-> max_cset,
            max_old_cset |-> IF generational /\ kind = "global"
                               THEN old_max_cset(in.old_evac_reserve) ELSE 0,
            min_garbage |-> min_garbage(free_target(in.capacity, max_cset),
                                        actual_free)]
      first == IF generational THEN preselected_pass(sorted, 1, start) ELSE start
      last == IF ~generational THEN non_generational_walk(sorted, 1, first, p)
              ELSE IF kind = "global" THEN global_walk(sorted, 1, first, p)
              ELSE young_walk(sorted, 1, first, p)
  IN [sorted |-> sorted, added |-> last.added,
      preselected_garbage |-> first.cur_garbage,
      stopped |-> last.stopped, max_cset |-> p.max_cset,
      max_old_cset |-> p.max_old_cset, min_garbage |-> p.min_garbage,
      cur_cset |-> last.cur_cset, old_cur_cset |-> last.old_cur_cset,
      cur_garbage |-> last.cur_garbage]

\* ------------------------------------------------------------------------
\* bytes_of_allocation_runway_before_gc_trigger
\* ------------------------------------------------------------------------
\* (capacity > usage) ? capacity - usage : 0
runway_available(capacity, usage) ==
  IF capacity > usage THEN capacity - usage ELSE 0

\* available + young_regions_to_be_reclaimed * region_size_bytes()
\*   - available_young_collected, in size_t
anticipated_available(avail, young_regions_to_be_reclaimed, collected) ==
  (avail + young_regions_to_be_reclaimed * region_size_bytes - collected)
    % SIZE_T_RANGE

\* capacity * ShenandoahAllocSpikeFactor / 100
runway_spike_headroom(capacity) == (capacity * ShenandoahAllocSpikeFactor) \div 100

\* capacity * _gc_time_penalties / 100
runway_penalties(capacity, gc_time_penalties) == (capacity * gc_time_penalties) \div 100

\* the slack with the penalties left out of the budget
evac_slack_without_penalties(anticipated, cycle_time, rate, unit, pen, headroom) ==
  LET consumed == cycle_time * rate
      scale == SD_SCALE * unit
      rest == anticipated - headroom
  IN IF rest > consumed \div scale
       THEN rest - (consumed + scale - 1) \div scale
       ELSE 0

\* anticipated_available - (avg_cycle_time * rate + penalties + spike_headroom)
\* as a size_t if anticipated_available is the greater, else 0; cycle_time in
\* 1/SD_SCALE ticks, rate in 1/unit bytes per tick.  The comparison and the
\* difference are computed in double and the difference is truncated.
evac_slack(anticipated, cycle_time, rate, unit, pen, headroom) ==
  LET consumed == cycle_time * rate
      scale == SD_SCALE * unit
      rest == anticipated - pen - headroom
  IN IF rest > consumed \div scale
       THEN rest - (consumed + scale - 1) \div scale
       ELSE 0

\* (anticipated_available > threshold) ? anticipated_available - threshold : 0
evac_min_threshold(anticipated, threshold) ==
  IF anticipated > threshold THEN anticipated - threshold ELSE 0

\* MIN3(evac_slack_spiking, evac_slack_avg, evac_min_threshold) for the
\* anticipated available bytes, the penalties, the spike headroom and the
\* minimum threshold given
allocation_runway(anticipated, cycle_time, avg_alloc_rate, rate, spiking, pen, headroom, threshold) ==
  LET evac_slack_avg ==
        evac_slack(anticipated, cycle_time, avg_alloc_rate, SD_SCALE, pen, headroom)
      evac_slack_spiking ==
        IF spiking
          THEN evac_slack(anticipated, cycle_time, rate, 1, pen, headroom)
          ELSE evac_slack_avg
  IN MIN2(MIN2(evac_slack_spiking, evac_slack_avg),
          evac_min_threshold(anticipated, threshold))

\* bytes_of_allocation_runway_before_gc_trigger(young_regions_to_be_reclaimed)
\* after the allocation rate was sampled: est, rate are the estimator after
\* sample() and the rate it returned; in holds capacity
\* (soft_max_capacity()), usage (used()), collected
\* (get_young_available_bytes_collected()), gc_time_penalties and the cycle
\* times.
bytes_of_allocation_runway_before_gc_trigger(margin, spike, est, rate, in, young_regions_to_be_reclaimed) ==
  allocation_runway(
    anticipated_available(runway_available(in.capacity, in.usage),
                          young_regions_to_be_reclaimed, in.collected),
    avg_cycle_time(in.cycle_davg, in.cycle_dsd, margin),
    upper_bound(est, margin), rate, is_spiking(est, rate, spike),
    runway_penalties(in.capacity, in.gc_time_penalties),
    runway_spike_headroom(in.capacity),
    min_free_threshold(in.capacity))

\* ------------------------------------------------------------------------
\* Values the collaborators hand to the heuristic
\* ------------------------------------------------------------------------
\* <<ShenandoahAdaptiveInitialConfidence, ShenandoahAdaptiveInitialSpikeThreshold>>
InitialParameters == {<<1000, 2000>>, <<1000, 400>>, <<3500, 100>>}
\* the heuristic's generation and the heap mode
Generations ==
  {[generation |-> "global", generational |-> FALSE],
   [generation |-> "young", generational |-> TRUE],
   [generation |-> "old", generational |-> TRUE]}
\* the generations whose collection set the heuristic chooses
ChooserGenerations ==
  {[generation |-> "global", generational |-> FALSE],
   [generation |-> "young", generational |-> TRUE],
   [generation |-> "global", generational |-> TRUE]}

\* What should_start_gc reads:
\*   capacity       generation->soft_max_capacity()
\*   soft_available generation->soft_available()
\*   usable         free_set()->available()
\*   allocated      generation->bytes_allocated_since_gc_start()
\*   penalties      _gc_time_penalties
\*   cycle_time     <<davg(), dsd()>> of _gc_cycle_time_history, in ticks
\*   promotion      <<promotion potential, promotion-in-place potential,
\*                    unprocessed old collection candidates>>
TriggerReads ==
  [capacity |-> {1000, 1024},
   soft_available |-> {50, 210, 710},
   usable |-> {140, 900},
   allocated |-> {12, 48},
   penalties |-> {0, 15},
   cycle_time |-> {<<6, 2>>, <<10, 0>>},
   promotion |-> {<<0, 0, 0>>, <<4, 0, 0>>, <<0, 4, 0>>, <<0, 0, 3>>}]

\* the same, where the feedback of the record_success_* calls is explored
FeedbackReads ==
  [capacity |-> {1000},
   soft_available |-> {180},
   usable |-> {900},
   allocated |-> {12, 48},
   penalties |-> {0},
   cycle_time |-> {<<6, 2>>},
   promotion |-> {<<0, 0, 0>>}]

\* <<generation->available(), free_set()->available()>> in
\* record_success_concurrent
AvailableReads == {<<220, 400>>, <<340, 260>>, <<340, 400>>}
FewAvailableReads == {<<340, 260>>}

\* What choose_collection_set_from_regiondata reads besides the regions
ChooserReads ==
  [capacity |-> {600, 10240},
   actual_free |-> {52, 1498, 2000},
   young_evac_reserve |-> {36, 600},
   old_evac_reserve |-> {42}]

Region(live, garbage, old, aged, preselected) ==
  [index |-> 0, live |-> live, garbage |-> garbage, old |-> old,
   aged |-> aged, preselected |-> preselected]

\* the regions of a non-generational heap
PlainRegions ==
  {Region(10, 30, FALSE, FALSE, FALSE), Region(20, 20, FALSE, FALSE, FALSE),
   Region(30, 10, FALSE, FALSE, FALSE), Region(36, 3, FALSE, FALSE, FALSE),
   Region(40, 0, FALSE, FALSE, FALSE)}

\* the young regions of a generational heap: below tenure age (one of them
\* partly used), of tenure age and preselected, of tenure age and not
\* preselected
YoungRegions ==
  {Region(10, 30, FALSE, FALSE, FALSE), Region(24, 16, FALSE, FALSE, FALSE),
   Region(32, 8, FALSE, FALSE, FALSE), Region(36, 3, FALSE, FALSE, FALSE),
   Region(6, 12, FALSE, FALSE, FALSE),
   Region(34, 6, FALSE, TRUE, TRUE), Region(10, 30, FALSE, TRUE, FALSE)}

\* the old regions a global collection sees
OldRegions ==
  {Region(26, 14, TRUE, FALSE, FALSE), Region(30, 10, TRUE, FALSE, FALSE)}

\* a non-generational heap of five regions of 4 MiB holding (live, garbage) of
\* (1, 3), (1, 3), (2, 2), (3, 1), (4, 0) MiB
ScenarioRegions ==
  <<Region(10, 30, FALSE, FALSE, FALSE), Region(10, 30, FALSE, FALSE, FALSE),
    Region(20, 20, FALSE, FALSE, FALSE), Region(30, 10, FALSE, FALSE, FALSE),
    Region(40, 0, FALSE, FALSE, FALSE)>>

\* What bytes_of_allocation_runway_before_gc_trigger reads:
\*   capacity   generation->soft_max_capacity()
\*   usage      generation->used()
\*   allocated  generation->bytes_allocated_since_gc_start()
\*   collected  collection_set()->get_young_available_bytes_collected()
\*   penalties  _gc_time_penalties
\*   cycle_time <<davg(), dsd()>> of _gc_cycle_time_history, in ticks
\*   young_regions_to_be_reclaimed  the argument
RunwayReads ==
  [capacity |-> {1000, 1024},
   usage |-> {300, 840, 1010},
   allocated |-> {12, 48},
   collected |-> {0, 50},
   penalties |-> {0, 10},
   cycle_time |-> {<<6, 2>>},
   young_regions_to_be_reclaimed |-> {0, 1, 2}]

\* the region arrays the chooser is handed for a generation kind and heap mode
RegionArrays(kind, mode) ==
  LET kinds == IF ~mode THEN PlainRegions
               ELSE IF kind = "global" THEN YoungRegions \cup OldRegions
               ELSE YoungRegions
  IN UNION {[1..n -> kinds] : n \in 0..MaxRegions}
       \cup (IF mode THEN {} ELSE {ScenarioRegions})

\* ------------------------------------------------------------------------
\* State
\* ------------------------------------------------------------------------
VARIABLES
  generation,          \* _generation: "young", "old" or "global"
  generational,        \* heap->mode()->is_generational()
  margin_of_error_sd,  \* _margin_of_error_sd
  spike_threshold_sd,  \* _spike_threshold_sd
  last_trigger,        \* _last_trigger
  available,           \* _available: the window of samples
  allocation_rate,     \* _allocation_rate
  gc_times_learned,    \* _gc_times_learned
  now,                 \* os::elapsedTime(), in ticks
  cycles,              \* record_success_* calls so far
  adjusted,            \* which parameters an adjust_* call has set
  ev                   \* the call that has just returned: what it read, what
                       \* it returned and the fields it found

vars == <<generation, generational, margin_of_error_sd, spike_threshold_sd,
          last_trigger, available, allocation_rate, gc_times_learned, now,
          cycles, adjusted, ev>>

\* the values a call reads from its collaborators; a value the call does not
\* read is 0 / FALSE
NoReads ==
  [capacity |-> 0, available |-> 0, allocated |-> 0,
   gc_time_penalties |-> 0, cycle_davg |-> 0, cycle_dsd |-> 0,
   promo_potential |-> 0, promo_in_place_potential |-> 0,
   mixed_candidates |-> 0, base |-> FALSE,
   generation_available |-> 0, free_set_available |-> 0]

\* no call has just returned: the control thread is between two calls
Idle ==
  [op |-> "idle", in |-> NoReads, rate |-> 0, result |-> FALSE, why |-> "",
   pre |-> [margin |-> 0, spike |-> 0, trigger |-> "OTHER", available |-> <<>>,
            allocation_rate |-> <<>>, now |-> 0]]

\* the record of a call
Event(op, in, rate, result, why) ==
  [op |-> op, in |-> in, rate |-> rate, result |-> result, why |-> why,
   pre |-> [margin |-> margin_of_error_sd, spike |-> spike_threshold_sd,
            trigger |-> last_trigger, available |-> available,
            allocation_rate |-> allocation_rate, now |-> now]]

\* ShenandoahAdaptiveHeuristics(generation) and ShenandoahAllocationRate()
Init ==
  /\ \E g \in Generations :
       /\ generation = g.generation
       /\ generational = g.generational
  /\ \E p \in InitialParameters :
       /\ margin_of_error_sd = p[1]
       /\ spike_threshold_sd = p[2]
  /\ last_trigger = "OTHER"
  /\ available = <<>>
  /\ now = 0
  /\ allocation_rate = [last_sample_time |-> 0, last_sample_value |-> 0,
                        rate |-> <<>>, rate_avg |-> <<>>]
  /\ gc_times_learned = 0
  /\ cycles = 0
  /\ adjusted = [margin |-> FALSE, spike |-> FALSE]
  /\ ev = Idle

\* the clock advances
Tick ==
  /\ ev = Idle
  /\ now < MaxTime
  /\ now' = now + 1
  /\ UNCHANGED <<generation, generational, margin_of_error_sd,
                 spike_threshold_sd, last_trigger, available, allocation_rate,
                 gc_times_learned, cycles, adjusted, ev>>

\* the call returns to the control thread
Return ==
  /\ ev # Idle
  /\ ev' = Idle
  /\ UNCHANGED <<generation, generational, margin_of_error_sd,
                 spike_threshold_sd, last_trigger, available, allocation_rate,
                 gc_times_learned, now, cycles, adjusted>>

\* The collaborator values a should_start_gc call reads after capacity,
\* available and allocated: the penalties and the cycle-time history when the
\* rate trigger is evaluated, the promotion values when the generational
\* branch is reached, the base heuristic's answer when the call defers to it.
\* Where a non-generational heap defers to the base heuristic, the promotion
\* values it holds are recorded as well, though the call does not read them.
LaterReads(R, first, s) ==
  LET decide(in) ==
        should_start_gc(generation, generational, gc_times_learned,
                        margin_of_error_sd, spike_threshold_sd, s.est, s.rate, in)
      WithBase(in) == {[in EXCEPT !.base = b] : b \in BOOLEAN}
      Unread(in) ==
        {[in EXCEPT !.promo_potential = p[1],
                    !.promo_in_place_potential = p[2],
                    !.mixed_candidates = p[3],
                    !.base = b] : p \in R.promotion, b \in BOOLEAN}
      WithPromotion(in) ==
        UNION {IF p = <<0, 0, 0>>
                 THEN WithBase(in)
                 ELSE {[in EXCEPT !.promo_potential = p[1],
                                  !.promo_in_place_potential = p[2],
                                  !.mixed_candidates = p[3]]}
               : p \in R.promotion}
      WithRate ==
        {[first EXCEPT !.gc_time_penalties = pen,
                       !.cycle_davg = c[1], !.cycle_dsd = c[2]]
         : pen \in R.penalties, c \in R.cycle_time}
  IN IF ~applies_depletion_triggers(generation) THEN WithBase(first)
     ELSE IF decide(first).why \in {"min", "learning"} THEN {first}
     ELSE UNION {IF decide(in).why \in {"rate", "spike"} THEN {in}
                 ELSE IF generational THEN WithPromotion(in)
                 ELSE Unread(in)
                 : in \in WithRate}

\* bool should_start_gc(), reading values of R
ShouldStartGc(R) ==
  /\ ev = Idle
  /\ \E capacity \in R.capacity, soft_available \in R.soft_available,
        usable \in R.usable, allocated \in R.allocated :
       LET s == sample(allocation_rate, now, allocated)
           first == [NoReads EXCEPT
                       !.capacity = capacity,
                       !.available = usable_available(soft_available, usable),
                       !.allocated = allocated]
       IN \E in \in LaterReads(R, first, s) :
            LET d == should_start_gc(generation, generational,
                                     gc_times_learned, margin_of_error_sd,
                                     spike_threshold_sd, s.est, s.rate, in)
            IN /\ allocation_rate' = s.est
               /\ last_trigger' = d.trigger
               /\ ev' = Event("should_start_gc", in, s.rate, d.result, d.why)
  /\ UNCHANGED <<generation, generational, margin_of_error_sd,
                 spike_threshold_sd, available, gc_times_learned,
                 now, cycles, adjusted>>

\* void record_cycle_start()
RecordCycleStart ==
  /\ ev = Idle
  /\ allocation_rate' = allocation_counter_reset(allocation_rate, now)
  /\ ev' = Event("record_cycle_start", NoReads, 0, FALSE, "")
  /\ UNCHANGED <<generation, generational, margin_of_error_sd,
                 spike_threshold_sd, last_trigger, available,
                 gc_times_learned, now, cycles, adjusted>>

\* void record_success_concurrent(bool abbreviated), reading a pair of A; at
\* most max record_success_* calls are followed
RecordSuccessConcurrent(A, max) ==
  /\ ev = Idle
  /\ cycles < max
  /\ \E a \in A :
       LET avail == MIN2(a[1], a[2])
           z == z_score(available, avail)
           adjust == outside_expected(z)
           p == IF adjust
                  THEN adjust_last_trigger_parameters(
                         last_trigger, margin_of_error_sd, spike_threshold_sd,
                         z_adjustment(z))
                  ELSE [margin |-> margin_of_error_sd, spike |-> spike_threshold_sd]
       IN /\ available' = add_available(available, avail)
          /\ margin_of_error_sd' = p.margin
          /\ spike_threshold_sd' = p.spike
          /\ adjusted' = [margin |-> adjusted.margin \/ (adjust /\ last_trigger = "RATE"),
                          spike |-> adjusted.spike \/ (adjust /\ last_trigger = "SPIKE")]
          /\ ev' = Event("record_success_concurrent",
                         [NoReads EXCEPT !.generation_available = a[1],
                                         !.free_set_available = a[2]],
                         0, FALSE, "")
  /\ gc_times_learned' = MIN2(gc_times_learned + 1, ShenandoahLearningSteps)
  /\ cycles' = cycles + 1
  /\ UNCHANGED <<generation, generational, last_trigger, allocation_rate, now>>

\* void record_success_degenerated()
RecordSuccessDegenerated(max) ==
  /\ ev = Idle
  /\ cycles < max
  /\ margin_of_error_sd' = adjust_margin_of_error(margin_of_error_sd, DEGENERATE_PENALTY_SD)
  /\ spike_threshold_sd' = adjust_spike_threshold(spike_threshold_sd, DEGENERATE_PENALTY_SD)
  /\ adjusted' = [margin |-> TRUE, spike |-> TRUE]
  /\ cycles' = cycles + 1
  /\ ev' = Event("record_success_degenerated", NoReads, 0, FALSE, "")
  /\ UNCHANGED <<generation, generational, last_trigger, available,
                 allocation_rate, gc_times_learned, now>>

\* void record_success_full()
RecordSuccessFull(max) ==
  /\ ev = Idle
  /\ cycles < max
  /\ margin_of_error_sd' = adjust_margin_of_error(margin_of_error_sd, FULL_PENALTY_SD)
  /\ spike_threshold_sd' = adjust_spike_threshold(spike_threshold_sd, FULL_PENALTY_SD)
  /\ adjusted' = [margin |-> TRUE, spike |-> TRUE]
  /\ cycles' = cycles + 1
  /\ ev' = Event("record_success_full", NoReads, 0, FALSE, "")
  /\ UNCHANGED <<generation, generational, last_trigger, available,
                 allocation_rate, gc_times_learned, now>>

\* The trigger decision over all the collaborator values, with few cycles
Next ==
  \/ Tick
  \/ Return
  \/ ShouldStartGc(TriggerReads)
  \/ RecordCycleStart
  \/ RecordSuccessConcurrent(FewAvailableReads, MaxTriggerCycles)
  \/ RecordSuccessDegenerated(MaxTriggerCycles)
  \/ RecordSuccessFull(MaxTriggerCycles)

Spec == Init /\ [][Next]_vars

\* The feedback of the cycles' outcomes over all the available values, with
\* few collaborator values for the trigger decision
NextFeedback ==
  \/ Tick
  \/ Return
  \/ ShouldStartGc(FeedbackReads)
  \/ RecordCycleStart
  \/ RecordSuccessConcurrent(AvailableReads, MaxCycles)
  \/ RecordSuccessDegenerated(MaxCycles)
  \/ RecordSuccessFull(MaxCycles)

SpecFeedback == Init /\ [][NextFeedback]_vars

\* the state after construction, for the generations that choose collection sets
InitChooser ==
  /\ \E g \in ChooserGenerations :
       /\ generation = g.generation
       /\ generational = g.generational
  /\ \E p \in InitialParameters :
       /\ margin_of_error_sd = p[1]
       /\ spike_threshold_sd = p[2]
  /\ last_trigger = "OTHER"
  /\ available = <<>>
  /\ now = 0
  /\ allocation_rate = [last_sample_time |-> 0, last_sample_value |-> 0,
                        rate |-> <<>>, rate_avg |-> <<>>]
  /\ gc_times_learned = 0
  /\ cycles = 0
  /\ adjusted = [margin |-> FALSE, spike |-> FALSE]
  /\ ev = Idle

\* void choose_collection_set_from_regiondata(cset, data, size, actual_free);
\* a reserve the branch taken does not read is 0
ChooseCollectionSetFromRegiondata ==
  /\ ev = Idle
  /\ \E regions \in RegionArrays(generation, generational),
        capacity \in ChooserReads.capacity,
        actual_free \in ChooserReads.actual_free,
        young_evac_reserve \in (IF generational
                                  THEN ChooserReads.young_evac_reserve ELSE {0}),
        old_evac_reserve \in (IF generational /\ generation = "global"
                                THEN ChooserReads.old_evac_reserve ELSE {0}) :
       LET data == [i \in 1..Len(regions) |-> [regions[i] EXCEPT !.index = i]]
           in == [capacity |-> capacity,
                  young_evac_reserve |-> young_evac_reserve,
                  old_evac_reserve |-> old_evac_reserve]
       IN ev' = [op |-> "choose_collection_set_from_regiondata",
                 data |-> data, actual_free |-> actual_free, in |-> in,
                 cset |-> choose_collection_set_from_regiondata(
                            generation, generational, data, actual_free, in)]
  /\ UNCHANGED <<generation, generational, margin_of_error_sd,
                 spike_threshold_sd, last_trigger, available, allocation_rate,
                 gc_times_learned, now, cycles, adjusted>>

\* The collection-set choice over the region arrays
NextChooser ==
  \/ ChooseCollectionSetFromRegiondata
  \/ Return

SpecChooser == InitChooser /\ [][NextChooser]_vars

\* the state after construction of the young generation's heuristic
InitRunway ==
  /\ generation = "young"
  /\ generational = TRUE
  /\ \E p \in InitialParameters :
       /\ margin_of_error_sd = p[1]
       /\ spike_threshold_sd = p[2]
  /\ last_trigger = "OTHER"
  /\ available = <<>>
  /\ now = 0
  /\ allocation_rate = [last_sample_time |-> 0, last_sample_value |-> 0,
                        rate |-> <<>>, rate_avg |-> <<>>]
  /\ gc_times_learned = 0
  /\ cycles = 0
  /\ adjusted = [margin |-> FALSE, spike |-> FALSE]
  /\ ev = Idle

\* size_t bytes_of_allocation_runway_before_gc_trigger(
\*   young_regions_to_be_reclaimed), reading values of R
BytesOfAllocationRunwayBeforeGcTrigger(R) ==
  /\ ev = Idle
  /\ generation = "young"
  /\ \E capacity \in R.capacity, usage \in R.usage, allocated \in R.allocated,
        collected \in R.collected, pen \in R.penalties, c \in R.cycle_time,
        young_regions_to_be_reclaimed \in R.young_regions_to_be_reclaimed :
       LET s == sample(allocation_rate, now, allocated)
           in == [capacity |-> capacity, usage |-> usage,
                  allocated |-> allocated, collected |-> collected,
                  gc_time_penalties |-> pen,
                  cycle_davg |-> c[1], cycle_dsd |-> c[2]]
       IN /\ allocation_rate' = s.est
          /\ ev' = [op |-> "bytes_of_allocation_runway_before_gc_trigger",
                    in |-> in,
                    young_regions_to_be_reclaimed |-> young_regions_to_be_reclaimed,
                    rate |-> s.rate,
                    result |-> bytes_of_allocation_runway_before_gc_trigger(
                                 margin_of_error_sd, spike_threshold_sd, s.est,
                                 s.rate, in, young_regions_to_be_reclaimed)]
  /\ UNCHANGED <<generation, generational, margin_of_error_sd,
                 spike_threshold_sd, last_trigger, available, gc_times_learned,
                 now, cycles, adjusted>>

\* The runway estimate of the young generation's heuristic
NextRunway ==
  \/ Tick
  \/ Return
  \/ BytesOfAllocationRunwayBeforeGcTrigger(RunwayReads)
  \/ RecordCycleStart
  \/ RecordSuccessConcurrent(FewAvailableReads, MaxTriggerCycles)
  \/ RecordSuccessDegenerated(MaxTriggerCycles)
  \/ RecordSuccessFull(MaxTriggerCycles)

SpecRunway == InitRunway /\ [][NextRunway]_vars

\* ------------------------------------------------------------------------
\* Properties
\* ------------------------------------------------------------------------
\* a value within [MINIMUM_CONFIDENCE, MAXIMUM_CONFIDENCE]
InConfidenceRange(v) == 319 <= v /\ v <= 3291

\* a value forced into [0.319, 3.291]
Clamp(v) == IF v < 319 THEN 319 ELSE IF v > 3291 THEN 3291 ELSE v

Returned(op) == ev.op = op

\* the expected cycle time of the call that returned, in 1/1000 ticks
CallCycleTime == ev.in.cycle_davg * 1000 + margin_of_error_sd * ev.in.cycle_dsd

\* upper_bound(margin_of_error_sd) of the call that returned, in 1/1000 bytes
\* per tick
CallAllocRate ==
  DMA_davg(allocation_rate.rate) * 1000
    + margin_of_error_sd * DMA_dsd(allocation_rate.rate_avg)

\* headroom with the divisions by 100 done first, as integer divisions
CallHeadroom ==
  LET spike == (ev.in.capacity \div 100) * ShenandoahAllocSpikeFactor
      pen == (ev.in.capacity \div 100) * ev.in.gc_time_penalties
      h1 == ev.in.available - (IF ev.in.available < pen THEN ev.in.available ELSE pen)
  IN h1 - (IF h1 < spike THEN h1 ELSE spike)

\* 100 * headroom with spike_headroom = capacity * AllocSpikeFactor / 100 and
\* penalties = capacity * gc_time_penalties / 100 as written, without rounding
CallHeadroomTimes100 ==
  LET a == ev.in.available * 100
      spike == ev.in.capacity * ShenandoahAllocSpikeFactor
      pen == ev.in.capacity * ev.in.gc_time_penalties
      h1 == a - (IF a < pen THEN a ELSE pen)
  IN h1 - (IF h1 < spike THEN h1 ELSE spike)

\* headroom < avg_cycle_time * avg_alloc_rate
CallRateCondition == CallHeadroom * 1000000 < CallCycleTime * CallAllocRate

\* is_spiking(rate, spike_threshold_sd) for the rate just sampled and
\* avg_cycle_time > headroom / rate
CallSpikeCondition ==
  /\ ev.rate > 0
  /\ DMA_sd(allocation_rate.rate) > 0
  /\ (ev.rate - DMA_avg(allocation_rate.rate)) * 1000
       > spike_threshold_sd * DMA_sd(allocation_rate.rate)
  /\ CallCycleTime * ev.rate > CallHeadroom * 1000

\* min_free_threshold() of the call that returned
CallMinThreshold == (ev.in.capacity * ShenandoahMinFreeThreshold) \div 100

\* neither the minimum-threshold nor the learning trigger ended the call
PastLearning == ev.why \notin {"min", "learning"}

\* C1: once an adjust_* call has set a parameter (in record_success_degenerated,
\* record_success_full, or record_success_concurrent outside the dead band),
\* that parameter lies in [0.319, 3.291], whatever the amounts were.
C1_ConfidenceSaturation ==
  /\ adjusted.margin => InConfidenceRange(margin_of_error_sd)
  /\ adjusted.spike => InConfidenceRange(spike_threshold_sd)

\* a full GC from parameters outside the range: both adjustments saturate
C1_Witness ==
  /\ Returned("record_success_full")
  /\ ev.pre.margin + 200 > 3291 /\ margin_of_error_sd = 3291
  /\ ev.pre.spike - 200 < 319 /\ spike_threshold_sd = 319

\* C2 as stated: whenever available is below min_free_threshold,
\* should_start_gc returns true and leaves last_trigger = OTHER.
C2_Original ==
  (Returned("should_start_gc")
     /\ ev.in.available < CallMinThreshold)
  => (ev.result /\ last_trigger = "OTHER")

\* C2 amended: for a generation that is not old, whenever available is below
\* min_free_threshold, should_start_gc returns true and leaves
\* last_trigger = OTHER, whatever the rate, spike, learning and cycle-time
\* state is.
C2_TriggerPrecedence ==
  (Returned("should_start_gc") /\ generation # "old"
     /\ ev.in.available < CallMinThreshold)
  => (ev.result /\ last_trigger = "OTHER" /\ ev.why = "min")

\* below the minimum threshold with two rate samples taken and learning over
C2_Witness ==
  /\ Returned("should_start_gc") /\ generation # "old"
  /\ ev.in.available < CallMinThreshold
  /\ Len(allocation_rate.rate) = 2
  /\ gc_times_learned = ShenandoahLearningSteps
  /\ ev.result

\* C3 as stated: past the minimum-threshold and learning triggers, a non-old
\* call fires with RATE exactly when headroom < avg_cycle_time * avg_alloc_rate
\* for spike_headroom = capacity * AllocSpikeFactor / 100 and
\* penalties = capacity * gc_time_penalties / 100.
C3_Original ==
  (Returned("should_start_gc") /\ generation # "old" /\ PastLearning)
  => ((ev.result /\ last_trigger = "RATE")
        <=> CallHeadroomTimes100 * 10000 < CallCycleTime * CallAllocRate)

\* C3 amended: past the minimum-threshold and learning triggers, a non-old
\* call fires with RATE exactly when headroom < avg_cycle_time * avg_alloc_rate,
\* where spike_headroom = (capacity / 100) * AllocSpikeFactor and
\* penalties = (capacity / 100) * gc_time_penalties, the division by 100 being
\* an integer division done before the multiplication.
C3_RateTrigger ==
  (Returned("should_start_gc") /\ generation # "old" /\ PastLearning)
  => ((ev.result /\ last_trigger = "RATE") <=> CallRateCondition)

\* the rate trigger fires with penalties and spike headroom taken off
C3_Witness ==
  /\ Returned("should_start_gc") /\ generation # "old" /\ PastLearning
  /\ ev.result /\ last_trigger = "RATE"
  /\ ev.in.gc_time_penalties > 0
  /\ CallHeadroom > 0 /\ CallHeadroom < ev.in.available

\* C4: a call ends with last_trigger = SPIKE only if the generation is not old,
\* the minimum-threshold, learning and rate triggers did not fire, the rate
\* just sampled is spiking and avg_cycle_time > headroom / rate; where both
\* the rate and the spike condition hold the call ends with RATE.
C4_SpikeTrigger ==
  Returned("should_start_gc") =>
    /\ last_trigger = "SPIKE" =>
         /\ generation # "old"
         /\ PastLearning
         /\ ev.in.available >= CallMinThreshold
         /\ ~CallRateCondition
         /\ CallSpikeCondition
         /\ ev.result
    /\ (generation # "old" /\ PastLearning /\ CallRateCondition /\ CallSpikeCondition)
         => last_trigger = "RATE"

\* the spike trigger fires
C4_Witness ==
  /\ Returned("should_start_gc") /\ last_trigger = "SPIKE" /\ ev.result

\* C5 as stated: while learning, a non-old call with available at or above
\* the minimum threshold fires with OTHER whenever
\* available < capacity * InitFreeThreshold / 100.
C5_Original ==
  (Returned("should_start_gc") /\ generation # "old"
     /\ ev.in.available >= CallMinThreshold
     /\ gc_times_learned < ShenandoahLearningSteps
     /\ ev.in.available * 100 < ev.in.capacity * ShenandoahInitFreeThreshold)
  => (ev.result /\ last_trigger = "OTHER")

\* C5 amended: while gc_times_learned < LearningSteps, a non-old call with
\* available at or above the minimum threshold fires with OTHER whenever
\* available < (capacity / 100) * InitFreeThreshold, the division being an
\* integer division done first, and the learning trigger fires in no other
\* case; in particular once gc_times_learned >= LearningSteps it never fires.
C5_LearningTrigger ==
  Returned("should_start_gc") =>
    /\ (generation # "old"
          /\ ev.in.available >= CallMinThreshold
          /\ gc_times_learned < ShenandoahLearningSteps
          /\ ev.in.available < (ev.in.capacity \div 100) * ShenandoahInitFreeThreshold)
       <=> ev.why = "learning"
    /\ ev.why = "learning" => (ev.result /\ last_trigger = "OTHER")
    /\ gc_times_learned >= ShenandoahLearningSteps => ev.why # "learning"

\* the learning trigger fires on a fresh heuristic
C5_Witness ==
  /\ Returned("should_start_gc") /\ ev.why = "learning"
  /\ gc_times_learned = 0 /\ ev.result

\* C6: record_success_full moves margin_of_error_sd to clamp(margin + 0.2) and
\* spike_threshold_sd to clamp(spike - 0.2), record_success_degenerated does
\* the same with 0.1, whatever last_trigger is, and last_trigger stays.
C6_PostCyclePenalties ==
  /\ Returned("record_success_full") =>
       /\ margin_of_error_sd = Clamp(ev.pre.margin + 200)
       /\ spike_threshold_sd = Clamp(ev.pre.spike - 200)
       /\ last_trigger = ev.pre.trigger
  /\ Returned("record_success_degenerated") =>
       /\ margin_of_error_sd = Clamp(ev.pre.margin + 100)
       /\ spike_threshold_sd = Clamp(ev.pre.spike - 100)
       /\ last_trigger = ev.pre.trigger

\* margin 1.00, spike 2.00, a full GC after a rate trigger: 1.20 and 1.80
C6_Witness ==
  /\ Returned("record_success_full")
  /\ ev.pre.margin = 1000 /\ ev.pre.spike = 2000 /\ ev.pre.trigger = "RATE"
  /\ margin_of_error_sd = 1200 /\ spike_threshold_sd = 1800

\* C7: record_success_concurrent leaves last_trigger as it found it, leaves
\* spike_threshold_sd alone under RATE, margin_of_error_sd alone under SPIKE,
\* and both alone under OTHER.
C7_FeedbackDispatch ==
  Returned("record_success_concurrent") =>
    /\ last_trigger = ev.pre.trigger
    /\ ev.pre.trigger = "RATE" => spike_threshold_sd = ev.pre.spike
    /\ ev.pre.trigger = "SPIKE" => margin_of_error_sd = ev.pre.margin
    /\ ev.pre.trigger = "OTHER" =>
         /\ margin_of_error_sd = ev.pre.margin
         /\ spike_threshold_sd = ev.pre.spike

\* a concurrent success after a spike trigger moves the spike threshold
C7_Witness ==
  /\ Returned("record_success_concurrent")
  /\ ev.pre.trigger = "SPIKE"
  /\ spike_threshold_sd # ev.pre.spike
  /\ margin_of_error_sd = ev.pre.margin

\* what record_success_concurrent samples
C8_Avail ==
  IF ev.in.generation_available < ev.in.free_set_available
    THEN ev.in.generation_available ELSE ev.in.free_set_available

\* -z / 100 in thousandths, for the history before the call
C8_Amount ==
  LET d == (DMA_avg(ev.pre.available) - C8_Avail) * 10
      sd == DMA_sd(ev.pre.available)
  IN IF d >= 0 THEN d \div sd ELSE 0 - ((0 - d) \div sd)

\* -0.5 <= z <= 0.5, z being 0 when sd is not positive
C8_InDeadBand ==
  LET sd == DMA_sd(ev.pre.available)
      d == C8_Avail - DMA_avg(ev.pre.available)
  IN sd <= 0 \/ (0 - sd <= 2 * d /\ 2 * d <= sd)

\* C8: record_success_concurrent changes no parameter when -0.5 <= z <= 0.5
\* for z = (avail - avg) / sd of the available history (0 when sd is not
\* positive); otherwise the parameter of last_trigger is adjusted by -z / 100:
\* margin_of_error_sd = clamp(prev + amount) under RATE,
\* spike_threshold_sd = clamp(prev - amount) under SPIKE, and the amount is
\* positive for z < -0.5.
C8_DeadBandAndAmount ==
  Returned("record_success_concurrent") =>
    IF C8_InDeadBand
      THEN /\ margin_of_error_sd = ev.pre.margin
           /\ spike_threshold_sd = ev.pre.spike
      ELSE /\ ev.pre.trigger = "RATE" =>
                margin_of_error_sd = Clamp(ev.pre.margin + C8_Amount)
           /\ ev.pre.trigger = "SPIKE" =>
                spike_threshold_sd = Clamp(ev.pre.spike - C8_Amount)
           /\ 2 * (C8_Avail - DMA_avg(ev.pre.available)) < 0 => C8_Amount > 0

\* average 300, deviation 40, available 220 after a rate trigger: + 0.02
C8_Witness ==
  /\ Returned("record_success_concurrent")
  /\ DMA_avg(ev.pre.available) = 300 /\ DMA_sd(ev.pre.available) = 40
  /\ C8_Avail = 220 /\ ev.pre.trigger = "RATE"
  /\ ev.pre.margin = 1000 /\ margin_of_error_sd = 1020

\* C9: for the old generation should_start_gc returns what the base heuristic
\* returns and leaves last_trigger = OTHER, whatever available, the rate and
\* the histories are.
C9_OldSkipsDepletion ==
  (Returned("should_start_gc") /\ generation = "old")
  => (ev.result = ev.in.base /\ last_trigger = "OTHER" /\ ev.why = "base")

\* the old generation below the minimum threshold, the base heuristic saying no
C9_Witness ==
  /\ Returned("should_start_gc") /\ generation = "old"
  /\ ev.in.available < CallMinThreshold
  /\ Len(allocation_rate.rate) = 2
  /\ ~ev.result

\* one of the three promotion values is positive
C10_Work ==
  \/ ev.in.promo_potential > 0
  \/ ev.in.promo_in_place_potential > 0
  \/ ev.in.mixed_candidates > 0

\* C10: in generational mode a non-old call returns true whenever one of the
\* three promotion values is positive, with last_trigger = OTHER unless the
\* rate or spike trigger fired; in non-generational mode the three values
\* cause no trigger: past the depletion triggers the result is the base
\* heuristic's.
C10_GenerationalExpedite ==
  (Returned("should_start_gc") /\ generation # "old") =>
    /\ (generational /\ C10_Work) =>
         /\ ev.result
         /\ ev.why \notin {"min", "learning", "rate", "spike"}
              => (last_trigger = "OTHER" /\ ev.why # "base")
    /\ (~generational /\ ev.why \notin {"min", "learning", "rate", "spike"})
         => (ev.result = ev.in.base /\ ev.why = "base")

\* unprocessed old candidates alone start a young cycle
C10_Witness ==
  /\ Returned("should_start_gc") /\ generation = "young" /\ generational
  /\ ev.in.mixed_candidates > 0 /\ ev.in.promo_potential = 0
  /\ ev.in.promo_in_place_potential = 0
  /\ ev.result /\ last_trigger = "OTHER" /\ ~ev.in.base

\* ------------------------------------------------------------------------
\* The collection-set chooser
\* ------------------------------------------------------------------------
ChooserReturned == Returned("choose_collection_set_from_regiondata")

\* the regions in the collection set, by their index in the array handed in
Added == {ev.cset.added[k] : k \in 1..Len(ev.cset.added)}

\* the indices of the regions at the positions before i of the sorted array
Before(i) == {ev.cset.sorted[k].index : k \in 1..(i - 1)}

RECURSIVE LiveOf(_)
LiveOf(S) ==
  IF S = {} THEN 0
  ELSE LET i == CHOOSE i \in S : TRUE IN ev.data[i].live + LiveOf(S \ {i})

RECURSIVE GarbageOf(_)
GarbageOf(S) ==
  IF S = {} THEN 0
  ELSE LET i == CHOOSE i \in S : TRUE IN ev.data[i].garbage + GarbageOf(S \ {i})

AllRegions == 1..Len(ev.data)

YoungAdded == {i \in Added : ~ev.data[i].old}

Preselected == {i \in AllRegions : ev.data[i].preselected}

\* LiveSum <= max_cset, for max_cset = capacity * EvacReserve / 100 / EvacWaste
\* without a generational heap and young_evac_reserve / EvacWaste with one
UnderMaxCset(LiveSum) ==
  IF generational
    THEN LiveSum * ShenandoahEvacWaste <= ev.in.young_evac_reserve * WASTE_SCALE
    ELSE LiveSum * 100 * ShenandoahEvacWaste
           <= ev.in.capacity * ShenandoahEvacReserve * WASTE_SCALE

\* the region at position i of the sorted array would push the live bytes of
\* the regions added before it over max_cset
OverCapAt(i) ==
  ~UnderMaxCset(LiveOf(Before(i) \cap Added) + ev.cset.sorted[i].live)

\* the walk stops at the first region over the cap
StopsAtFirstOverCap ==
  \A i \in 1..Len(ev.cset.sorted) :
    OverCapAt(i) =>
      \A j \in i..Len(ev.cset.sorted) : ev.cset.sorted[j].index \notin Added

\* free_target - actual_free, or 0, of the call that returned
CallMinGarbage ==
  LET max_cset == IF generational
                    THEN (ev.in.young_evac_reserve * WASTE_SCALE)
                           \div ShenandoahEvacWaste
                    ELSE (ev.in.capacity * ShenandoahEvacReserve * WASTE_SCALE)
                           \div (100 * ShenandoahEvacWaste)
      target == (ev.in.capacity * ShenandoahMinFreeThreshold) \div 100 + max_cset
  IN IF target > ev.actual_free THEN target - ev.actual_free ELSE 0

CallGarbageThreshold == (region_size_bytes * ShenandoahGarbageThreshold) \div 100

\* C11 as stated: the live bytes of the young regions added are at most
\* max_cset, and without a generational heap the walk stops at the first
\* region over the cap.
C11_Original ==
  ChooserReturned =>
    /\ UnderMaxCset(LiveOf(YoungAdded))
    /\ ~generational => StopsAtFirstOverCap

\* C11 amended: the live bytes of the young regions added that are not
\* preselected are at most max_cset (capacity * EvacReserve / 100 / EvacWaste
\* without a generational heap, young_evac_reserve / EvacWaste with one);
\* without a generational heap the walk stops at the first sorted region whose
\* live bytes would push the sum over max_cset and adds no region after it.
C11_ChooserCap ==
  ChooserReturned =>
    /\ UnderMaxCset(LiveOf(YoungAdded \ Preselected))
    /\ ~generational => StopsAtFirstOverCap

\* a generational call adds a preselected region and a young one, and leaves
\* out a young region of enough garbage because of the cap
C11_Witness ==
  /\ ChooserReturned /\ generational
  /\ Preselected \cap Added # {}
  /\ YoungAdded \ Preselected # {}
  /\ \E i \in AllRegions \ Added :
       /\ ~ev.data[i].old /\ ~ev.data[i].aged
       /\ ev.data[i].garbage > CallGarbageThreshold

C13_Original ==
  (ChooserReturned /\ ~generational) =>
    /\ \A i \in 1..Len(ev.cset.sorted) :
         (\A k \in 1..i : ~OverCapAt(k)) =>
           (ev.cset.sorted[i].index \in Added
              <=> \/ GarbageOf(Before(i) \cap Added) < CallMinGarbage
                  \/ ev.cset.sorted[i].garbage > CallGarbageThreshold)
    /\ (Len(ev.data) = 5 /\ CallMinGarbage = 38 /\ ev.in.capacity = 10240)
         => Added = {1, 2, 3}

\* C14: with a generational heap every preselected region of the array is in
\* the collection set whatever the cap, min_garbage and the thresholds are;
\* the preselected regions are added before any other region and
\* cur_young_garbage holds their garbage when the second pass starts.
C14_PreselectedInclusion ==
  (ChooserReturned /\ generational) =>
    /\ Preselected \subseteq Added
    /\ \A k \in 1..Len(ev.cset.added) :
         k <= Cardinality(Preselected) <=> ev.cset.added[k] \in Preselected
    /\ ev.cset.preselected_garbage = GarbageOf(Preselected)
    /\ ev.cset.cur_garbage = GarbageOf(YoungAdded)

\* a preselected region with more live bytes than max_cset and no more garbage
\* than the thresholds is added with min_garbage 0, next to another region
C14_Witness ==
  /\ ChooserReturned /\ generational
  /\ CallMinGarbage = 0
  /\ \E i \in Preselected \cap Added :
       /\ ~UnderMaxCset(ev.data[i].live)
       /\ ev.data[i].garbage <= CallGarbageThreshold
  /\ Added \ Preselected # {}

\* ------------------------------------------------------------------------
\* The runway estimate
\* ------------------------------------------------------------------------
RunwayReturned == Returned("bytes_of_allocation_runway_before_gc_trigger")

\* the estimate of the call that returned for other values of the argument,
\* of the penalties and of the spike headroom; the estimator is the one the
\* call left, which a repeated sample at the same time does not change
CallRunway(young_regions_to_be_reclaimed, more_penalties, more_headroom) ==
  allocation_runway(
    anticipated_available(runway_available(ev.in.capacity, ev.in.usage),
                          young_regions_to_be_reclaimed, ev.in.collected),
    avg_cycle_time(ev.in.cycle_davg, ev.in.cycle_dsd, margin_of_error_sd),
    upper_bound(allocation_rate, margin_of_error_sd), ev.rate,
    is_spiking(allocation_rate, ev.rate, spike_threshold_sd),
    runway_penalties(ev.in.capacity, ev.in.gc_time_penalties + more_penalties),
    runway_spike_headroom(ev.in.capacity) + more_headroom,
    min_free_threshold(ev.in.capacity))

\* available + young_regions_to_be_reclaimed * region_size_bytes - collected
\* of the call that returned, as an integer
CallAnticipated ==
  runway_available(ev.in.capacity, ev.in.usage)
    + ev.young_regions_to_be_reclaimed * region_size_bytes - ev.in.collected

\* C15 as stated: with the heuristic and the collaborators fixed, the runway
\* does not get smaller when young_regions_to_be_reclaimed grows and does not
\* get larger when the penalties or the spike headroom grow.
C15_Original ==
  RunwayReturned =>
    /\ ev.result = CallRunway(ev.young_regions_to_be_reclaimed, 0, 0)
    /\ \A more \in 1..2 :
         /\ CallRunway(ev.young_regions_to_be_reclaimed + more, 0, 0) >= ev.result
         /\ CallRunway(ev.young_regions_to_be_reclaimed, more, 0) <= ev.result
         /\ CallRunway(ev.young_regions_to_be_reclaimed, 0, more) <= ev.result

\* what should_start_gc would decide on the statistics of the runway call
\* that returned, with available = anticipated_available and learned learning
\* steps behind it
CallTrigger(learned) ==
  depletion_trigger(learned, margin_of_error_sd, spike_threshold_sd,
                    allocation_rate, ev.rate,
                    [NoReads EXCEPT
                       !.capacity = ev.in.capacity,
                       !.available = anticipated_available(
                                       runway_available(ev.in.capacity, ev.in.usage),
                                       ev.young_regions_to_be_reclaimed,
                                       ev.in.collected),
                       !.allocated = ev.in.allocated,
                       !.gc_time_penalties = ev.in.gc_time_penalties,
                       !.cycle_davg = ev.in.cycle_davg,
                       !.cycle_dsd = ev.in.cycle_dsd])

\* C16 as stated: if the runway returned is positive, should_start_gc on the
\* same statistics with available = anticipated_available fires none of the
\* minimum-threshold, learning, rate and spike triggers.
C16_Original ==
  (RunwayReturned /\ ev.result > 0) => CallTrigger(gc_times_learned) = "none"

\* C16 amended: if the runway returned is positive, should_start_gc on the
\* same statistics with available = anticipated_available fires none of the
\* minimum-threshold, rate and spike triggers; the learning trigger, which the
\* runway leaves out, is the only depletion trigger that can fire, and only
\* while gc_times_learned < LearningSteps.
C16_RunwayAgreesWithTriggers ==
  (RunwayReturned /\ ev.result > 0) =>
    /\ CallTrigger(ShenandoahLearningSteps) = "none"
    /\ CallTrigger(gc_times_learned) \in {"none", "learning"}
    /\ gc_times_learned >= ShenandoahLearningSteps
         => CallTrigger(gc_times_learned) = "none"

\* a positive runway with penalties, a sampled rate and the learning steps done
C16_Witness ==
  /\ RunwayReturned /\ ev.result > 0
  /\ gc_times_learned >= ShenandoahLearningSteps
  /\ ev.in.gc_time_penalties > 0 /\ ev.rate > 0
  /\ upper_bound(allocation_rate, margin_of_error_sd) > 0

\* ------------------------------------------------------------------------
\* The allocation-rate samples
\* ------------------------------------------------------------------------
\* the estimator the call that returned found, and the clock at the call
CallEstimator == ev.pre.allocation_rate

CallElapsed == ev.pre.now - ev.pre.allocation_rate.last_sample_time

\* C17: a sample made when now - last_sample_time <= interval_sec returns 0
\* and leaves the estimator as it was (no sample in rate or rate_avg, the last
\* sample time and value kept); a call that changes the estimator sets
\* last_sample_time to the time of the call, so that a second call within
\* interval_sec adds nothing.
C17_SamplingRateLimit ==
  Returned("should_start_gc") =>
    /\ CallElapsed <= interval_sec
         => (ev.rate = 0 /\ allocation_rate = CallEstimator)
    /\ allocation_rate # CallEstimator
         => allocation_rate.last_sample_time = ev.pre.now

\* a call exactly interval_sec after a sample, with more bytes allocated
C17_Witness ==
  /\ Returned("should_start_gc")
  /\ CallElapsed = interval_sec
  /\ Len(CallEstimator.rate) > 0
  /\ ev.in.allocated > CallEstimator.last_sample_value
  /\ ev.rate = 0

\* C18: a sample made more than interval_sec after the last one with
\* allocated < last_sample_value returns 0, adds nothing to rate or rate_avg
\* and sets last_sample_time and last_sample_value to the current pair; no
\* sample in rate is negative and no rate returned is negative.
C18_CounterRegression ==
  /\ \A k \in 1..Len(allocation_rate.rate) : allocation_rate.rate[k] >= 0
  /\ Returned("should_start_gc") =>
       /\ ev.rate >= 0
       /\ (CallElapsed > interval_sec
             /\ ev.in.allocated < CallEstimator.last_sample_value)
          => /\ ev.rate = 0
             /\ allocation_rate.rate = CallEstimator.rate
             /\ allocation_rate.rate_avg = CallEstimator.rate_avg
             /\ allocation_rate.last_sample_time = ev.pre.now
             /\ allocation_rate.last_sample_value = ev.in.allocated

\* the counter read is below the last sample's, with samples in the window
C18_Witness ==
  /\ Returned("should_start_gc")
  /\ CallElapsed > interval_sec
  /\ ev.in.allocated < CallEstimator.last_sample_value
  /\ Len(CallEstimator.rate) > 0
  /\ allocation_rate.last_sample_value = ev.in.allocated

\* ------------------------------------------------------------------------
\* The direction of the adjustments
\* ------------------------------------------------------------------------
\* the amount record_success_* hands to adjust_margin_of_error, 0 if the call
\* does not adjust the margin of error
CallMarginAmount ==
  IF Returned("record_success_full") THEN FULL_PENALTY_SD
  ELSE IF Returned("record_success_degenerated") THEN DEGENERATE_PENALTY_SD
  ELSE IF Returned("record_success_concurrent") /\ ~C8_InDeadBand
          /\ ev.pre.trigger = "RATE" THEN C8_Amount
  ELSE 0

\* the amount record_success_* hands to adjust_spike_threshold
CallSpikeAmount ==
  IF Returned("record_success_full") THEN FULL_PENALTY_SD
  ELSE IF Returned("record_success_degenerated") THEN DEGENERATE_PENALTY_SD
  ELSE IF Returned("record_success_concurrent") /\ ~C8_InDeadBand
          /\ ev.pre.trigger = "SPIKE" THEN C8_Amount
  ELSE 0

\* after is above before, unless before is at MAXIMUM_CONFIDENCE
Raised(before, after) == after > before \/ before = MAXIMUM_CONFIDENCE

\* after is below before, unless before is at MINIMUM_CONFIDENCE
Lowered(before, after) == after < before \/ before = MINIMUM_CONFIDENCE

OneSampleAdded(before, x, after) ==
  IF Len(before) < AvailableWindow
    THEN after = Append(before, x)
    ELSE after = Append(Tail(before), x)

\* C20: record_success_concurrent adds exactly one sample, the available
\* bytes it read, to the available history, whether or not it adjusts a
\* parameter; record_success_degenerated, record_success_full,
\* record_cycle_start and should_start_gc leave the history as it was.
C20_AvailableHistory ==
  /\ Returned("record_success_concurrent")
       => OneSampleAdded(ev.pre.available, C8_Avail, available)
  /\ (ev.op \in {"record_success_degenerated", "record_success_full",
                 "record_cycle_start", "should_start_gc"})
       => available = ev.pre.available

\* a concurrent success inside the dead band adds its sample to a full window
C20_Witness ==
  /\ Returned("record_success_concurrent")
  /\ Len(ev.pre.available) = AvailableWindow
  /\ C8_InDeadBand
  /\ margin_of_error_sd = ev.pre.margin /\ spike_threshold_sd = ev.pre.spike
  /\ available # ev.pre.available

\* ------------------------------------------------------------------------
\* The reset at the start of a cycle
\* ------------------------------------------------------------------------
\* C21: record_cycle_start sets last_sample_value to 0 and last_sample_time to
\* the time of the call and leaves the samples alone; the next sample that is
\* recorded from there has the rate allocated / (now - reset time), the bytes
\* counted from 0.
C21_CycleStartReset ==
  /\ Returned("record_cycle_start") =>
       /\ allocation_rate.last_sample_value = 0
       /\ allocation_rate.last_sample_time = ev.pre.now
       /\ allocation_rate.rate = CallEstimator.rate
       /\ allocation_rate.rate_avg = CallEstimator.rate_avg
  /\ (Returned("should_start_gc")
        /\ CallEstimator.last_sample_value = 0
        /\ CallElapsed > interval_sec) =>
       /\ ev.rate = ev.in.allocated \div CallElapsed
       /\ allocation_rate.rate = DMA_add(CallEstimator.rate, ev.rate, RateWindow)

\* a sample recorded after a reset that followed an earlier sample: its rate
\* counts all the bytes read, over the time since the reset
C21_Witness ==
  /\ Returned("should_start_gc")
  /\ Len(CallEstimator.rate) > 0
  /\ CallEstimator.last_sample_value = 0
  /\ CallEstimator.last_sample_time > 0
  /\ CallElapsed > interval_sec
  /\ ev.rate > 0
  /\ ev.rate = ev.in.allocated \div CallElapsed

\* ------------------------------------------------------------------------
\* The sample and the trigger recorded by every call
\* ------------------------------------------------------------------------
\* what a should_start_gc call leaves: the estimator after one sample attempt
\* with the bytes it read, the rate of that attempt, and last_trigger = RATE
\* or SPIKE only where the call returned true through that trigger
C22_Call ==
  Returned("should_start_gc") =>
    /\ LET s == sample(CallEstimator, ev.pre.now, ev.in.allocated)
       IN allocation_rate = s.est /\ ev.rate = s.rate
    /\ last_trigger \in {"OTHER", "RATE", "SPIKE"}
    /\ generation = "old" => last_trigger = "OTHER"
    /\ ~ev.result => last_trigger = "OTHER"
    /\ last_trigger = "RATE"
         => (ev.result /\ PastLearning
               /\ ev.in.available >= CallMinThreshold /\ CallRateCondition)
    /\ last_trigger = "SPIKE"
         => (ev.result /\ PastLearning
               /\ ev.in.available >= CallMinThreshold
               /\ ~CallRateCondition /\ CallSpikeCondition)

\* a step that is not a should_start_gc call leaves last_trigger as it was
C22_Step == ev'.op # "should_start_gc" => last_trigger' = last_trigger

\* C22: every should_start_gc call, of every generation and whatever it
\* returns, makes one sample attempt and leaves last_trigger = OTHER unless it
\* returns true through the rate or the spike trigger; no other operation
\* writes last_trigger, so last_trigger is RATE or SPIKE only if the most
\* recent should_start_gc call returned true through that trigger.
C22_SampleAndReset == []C22_Call /\ [][C22_Step]_vars

\* a call that finds last_trigger = RATE, records a sample and returns false
C22_Witness ==
  /\ Returned("should_start_gc")
  /\ ev.pre.trigger = "RATE"
  /\ ev.rate > 0
  /\ allocation_rate # CallEstimator
  /\ ~ev.result
  /\ last_trigger = "OTHER"

\* ------------------------------------------------------------------------
\* The edge cases of the rate trigger
\* ------------------------------------------------------------------------
\* allocation_headroom of the call that returned
CallAllocationHeadroom ==
  allocation_headroom(ev.in.available, ev.in.capacity, ev.in.gc_time_penalties)

\* the call that returned evaluated the rate trigger
RateTriggerEvaluated ==
  Returned("should_start_gc") /\ generation # "old" /\ PastLearning

\* C23: where the rate trigger is evaluated, it does not fire when
\* avg_alloc_rate is 0, whatever the headroom is, 0 included; it fires when
\* the headroom is 0, avg_alloc_rate > 0 and avg_cycle_time > 0; and the
\* headroom is at least 0 and at most available, also where the penalties or
\* the spike headroom exceed what is left.
C23_RateEdgeCases ==
  RateTriggerEvaluated =>
    /\ CallAllocRate = 0 => last_trigger # "RATE"
    /\ (CallAllocationHeadroom = 0 /\ CallAllocRate > 0 /\ CallCycleTime > 0)
         => (ev.result /\ last_trigger = "RATE")
    /\ 0 <= CallAllocationHeadroom
    /\ CallAllocationHeadroom <= ev.in.available

\* penalties above available leave no headroom, no rate was sampled yet, and
\* the rate trigger does not fire
C23_Witness ==
  /\ RateTriggerEvaluated
  /\ penalties(ev.in.capacity, ev.in.gc_time_penalties) > ev.in.available
  /\ CallAllocationHeadroom = 0
  /\ CallAllocRate = 0
  /\ CallCycleTime > 0
  /\ last_trigger # "RATE"

\* penalties above available leave no headroom, and the rate trigger fires
\* with the lowest rate the estimator holds
C23_WitnessFires ==
  /\ RateTriggerEvaluated
  /\ penalties(ev.in.capacity, ev.in.gc_time_penalties) > ev.in.available
  /\ CallAllocationHeadroom = 0
  /\ CallAllocRate > 0
  /\ ev.result /\ last_trigger = "RATE"

\* ------------------------------------------------------------------------
\* The young and mixed collections of a generational heap
\* ------------------------------------------------------------------------
CallIgnoreThreshold ==
  (region_size_bytes * ShenandoahIgnoreGarbageThreshold) \div 100

\* the regions the second pass added before position i of the sorted array
WalkAddedBefore(i) == (Before(i) \cap Added) \ Preselected

\* the test of the second pass at position i: cur_cset holds the live bytes of
\* the regions the second pass added so far, cur_young_garbage the garbage of
\* the preselected regions and of the regions the second pass added so far
YoungRuleAt(i) ==
  LET r == ev.cset.sorted[i]
      cur_cset == LiveOf(WalkAddedBefore(i))
      cur_young_garbage == GarbageOf(Preselected) + GarbageOf(WalkAddedBefore(i))
  IN /\ UnderMaxCset(cur_cset + r.live)
     /\ \/ r.garbage > CallGarbageThreshold
        \/ (r.garbage > CallIgnoreThreshold
              /\ cur_young_garbage + r.garbage < CallMinGarbage)

\* C24: in a young or mixed collection, a region that is not preselected and
\* below tenure age is added if and only if cur_cset + r.live <= max_cset and
\* (r.garbage > garbage_threshold or (r.garbage > ignore_threshold and
\* cur_young_garbage + r.garbage < min_garbage)), the regions taken in
\* descending garbage order; a region of tenure age that is not preselected is
\* never added; a region over the cap does not end the walk.
C24_YoungSelection ==
  (ChooserReturned /\ generational /\ generation = "young") =>
    \A i \in 1..Len(ev.cset.sorted) :
      LET r == ev.cset.sorted[i]
      IN /\ (~r.preselected /\ ~r.aged) => (r.index \in Added <=> YoungRuleAt(i))
         /\ (~r.preselected /\ r.aged) => r.index \notin Added

\* a region below tenure age with garbage above the threshold is left out
\* because of the cap, and a later region with less live data is added
C24_Witness ==
  /\ ChooserReturned /\ generational /\ generation = "young"
  /\ \E i, j \in 1..Len(ev.cset.sorted) :
       /\ i < j
       /\ ~ev.cset.sorted[i].preselected /\ ~ev.cset.sorted[i].aged
       /\ ev.cset.sorted[i].garbage > CallGarbageThreshold
       /\ ev.cset.sorted[i].index \notin Added
       /\ ev.cset.sorted[j].live < ev.cset.sorted[i].live
       /\ ~ev.cset.sorted[j].preselected
       /\ ev.cset.sorted[j].index \in Added

\* ------------------------------------------------------------------------
\* The global collection of a generational heap
\* ------------------------------------------------------------------------
OldAdded == {i \in Added : ev.data[i].old}

\* LiveSum <= max_old_cset = old_evac_reserve / OldEvacWaste
UnderMaxOldCset(LiveSum) ==
  LiveSum * ShenandoahOldEvacWaste <= ev.in.old_evac_reserve * WASTE_SCALE

\* the old regions, and the young regions that are not preselected, added
\* before position i of the sorted array
OldAddedBefore(i) == Before(i) \cap OldAdded
YoungWalkAddedBefore(i) == (Before(i) \cap YoungAdded) \ Preselected

\* the test of a young region at position i, over the young regions only
GlobalYoungRuleAt(i) ==
  LET r == ev.cset.sorted[i]
      young_cur_cset == LiveOf(YoungWalkAddedBefore(i))
      cur_young_garbage ==
        GarbageOf(Preselected) + GarbageOf(YoungWalkAddedBefore(i))
  IN /\ UnderMaxCset(young_cur_cset + r.live)
     /\ \/ r.garbage > CallGarbageThreshold
        \/ (r.garbage > CallIgnoreThreshold
              /\ cur_young_garbage + r.garbage < CallMinGarbage)

\* C25: in a global collection of a generational heap the live bytes of the
\* old regions added are at most max_old_cset = old_evac_reserve /
\* OldEvacWaste and every old region added has garbage > garbage_threshold; an
\* old region is added exactly when it fits the old budget, counted over the
\* old regions added before it, and has garbage > garbage_threshold, and a
\* young region below tenure age exactly when it passes the young test,
\* counted over the young regions added before it: neither budget is charged
\* for a region of the other kind.
C25_GlobalBudgets ==
  (ChooserReturned /\ generational /\ generation = "global") =>
    /\ UnderMaxOldCset(LiveOf(OldAdded))
    /\ \A i \in OldAdded : ev.data[i].garbage > CallGarbageThreshold
    /\ ev.cset.old_cur_cset = LiveOf(OldAdded)
    /\ ev.cset.cur_cset = LiveOf(YoungAdded \ Preselected)
    /\ \A i \in 1..Len(ev.cset.sorted) :
         LET r == ev.cset.sorted[i]
         IN /\ (r.old /\ ~r.preselected) =>
                 (r.index \in Added
                    <=> /\ UnderMaxOldCset(LiveOf(OldAddedBefore(i)) + r.live)
                        /\ r.garbage > CallGarbageThreshold)
            /\ (~r.old /\ ~r.preselected /\ ~r.aged) =>
                 (r.index \in Added <=> GlobalYoungRuleAt(i))
            /\ (~r.old /\ ~r.preselected /\ r.aged) => r.index \notin Added

\* the old budget is used up, an old region with enough garbage is left out,
\* and a young region after it is added; min_garbage is above the garbage
\* added and an old region at the threshold is not
C25_Witness ==
  /\ ChooserReturned /\ generational /\ generation = "global"
  /\ OldAdded # {}
  /\ \E i, j \in 1..Len(ev.cset.sorted) :
       /\ i < j
       /\ ev.cset.sorted[i].old
       /\ ev.cset.sorted[i].garbage > CallGarbageThreshold
       /\ ev.cset.sorted[i].index \notin Added
       /\ ~ev.cset.sorted[j].old /\ ~ev.cset.sorted[j].preselected
       /\ ev.cset.sorted[j].index \in Added
  /\ GarbageOf(YoungAdded) < CallMinGarbage

\* the young budget is used up and an old region after the young region left
\* out is added
C25_WitnessYoungBudget ==
  /\ ChooserReturned /\ generational /\ generation = "global"
  /\ \E i, j \in 1..Len(ev.cset.sorted) :
       /\ i < j
       /\ ~ev.cset.sorted[i].old /\ ~ev.cset.sorted[i].aged
       /\ ~ev.cset.sorted[i].preselected
       /\ ev.cset.sorted[i].garbage > CallGarbageThreshold
       /\ ev.cset.sorted[i].index \notin Added
       /\ ev.cset.sorted[j].old
       /\ ev.cset.sorted[j].index \in Added

\* ------------------------------------------------------------------------
\* The range of the parameters
\* ------------------------------------------------------------------------
\* C26 as stated: in every state from construction on, before and after any
\* sequence of should_start_gc and record_* calls, margin_of_error_sd and
\* spike_threshold_sd both lie in [MINIMUM_CONFIDENCE, MAXIMUM_CONFIDENCE].
C26_Original ==
  /\ InConfidenceRange(margin_of_error_sd)
  /\ InConfidenceRange(spike_threshold_sd)

\* ------------------------------------------------------------------------
\* The order of the regions
\* ------------------------------------------------------------------------
\* the arrays that hold the regions of data, indices kept, in another order
Reorderings(data) ==
  LET n == Len(data)
      bijections == {f \in [1..n -> 1..n] :
                       \A i, j \in 1..n : i # j => f[i] # f[j]}
  IN {[i \in 1..n |-> data[f[i]]] : f \in bijections}

\* the collection set the chooser builds from array q for the values the call
\* that returned read
ChosenFrom(q) ==
  LET cset == choose_collection_set_from_regiondata(
                generation, generational, q, ev.actual_free, ev.in)
  IN {cset.added[k] : k \in 1..Len(cset.added)}

\* the walk went through the regions of the array in non-increasing garbage
\* order: the sorted array holds every region once, garbage never rises along
\* it, and the regions the second pass added were added in its order
WalkedByGarbage ==
  /\ Len(ev.cset.sorted) = Len(ev.data)
  /\ {ev.cset.sorted[k].index : k \in 1..Len(ev.cset.sorted)} = AllRegions
  /\ \A k \in 1..Len(ev.cset.sorted) :
       ev.cset.sorted[k] = ev.data[ev.cset.sorted[k].index]
  /\ \A i, j \in 1..Len(ev.cset.sorted) :
       i < j => ev.cset.sorted[i].garbage >= ev.cset.sorted[j].garbage
  /\ \A a, b \in 1..Len(ev.cset.added) :
       (a < b /\ ev.cset.added[a] \notin Preselected
              /\ ev.cset.added[b] \notin Preselected)
         => ev.data[ev.cset.added[a]].garbage >= ev.data[ev.cset.added[b]].garbage

\* no two regions of the array hold the same amount of garbage
DistinctGarbage ==
  \A i, j \in AllRegions : i # j => ev.data[i].garbage # ev.data[j].garbage

\* the caller's array was not in non-increasing garbage order
CallerOrderDiffers ==
  \E i, j \in AllRegions : i < j /\ ev.data[i].garbage < ev.data[j].garbage

AddCalls(i) == Cardinality({k \in 1..Len(ev.cset.added) : ev.cset.added[k] = i})

\* C28: in one call, whatever the generation and the heap mode, add_region is
\* called at most once for a region of the array and for no other region;
\* with a generational heap a preselected region is added once, in the first
\* pass, and not again in the second; an empty array gives no add_region call.
C28_NoRegionAddedTwice ==
  ChooserReturned =>
    /\ \A k \in 1..Len(ev.cset.added) : ev.cset.added[k] \in AllRegions
    /\ \A i \in AllRegions : AddCalls(i) <= 1
    /\ generational =>
         \A i \in Preselected :
           /\ AddCalls(i) = 1
           /\ \E k \in 1..Cardinality(Preselected) : ev.cset.added[k] = i
    /\ Len(ev.data) = 0 => ev.cset.added = <<>>

\* a young collection adds a preselected region in the first pass and two
\* more regions in the second: three add_region calls for three regions
C28_Witness ==
  /\ ChooserReturned /\ generational /\ generation = "young"
  /\ Cardinality(Preselected) = 1
  /\ Len(ev.cset.added) = 3
  /\ ev.cset.added[1] \in Preselected
  /\ Added = AllRegions

\* an empty array: no add_region call
C28_WitnessEmpty ==
  /\ ChooserReturned
  /\ Len(ev.data) = 0
  /\ ev.cset.added = <<>>

\* ------------------------------------------------------------------------
\* The runway and the anticipated free space
\* ------------------------------------------------------------------------
\* C29 as stated: the runway returned is at most available +
\* young_regions_to_be_reclaimed * region_size_bytes - collected taken as a
\* non-negative quantity, and is 0 when that quantity is at most
\* min_free_threshold; where collected exceeds available +
\* young_regions_to_be_reclaimed * region_size_bytes the runway is 0.
C29_Original ==
  RunwayReturned =>
    LET anticipated == MAX2(0, CallAnticipated)
    IN /\ ev.result <= anticipated
       /\ anticipated <= CallMinThreshold => ev.result = 0
       /\ CallAnticipated < 0 => ev.result = 0

====
